---- MODULE Spec2Model ----
(***************************************************************************)
(* Model of the bitmap-font descriptor fixer (class BitmapFontFixer).      *)
(*                                                                         *)
(* A text is a sequence of atoms.  An atom is a record [key, val]: the     *)
(* line feed, the word "char", a key=value token (key, integer value) or   *)
(* an opaque word.  A string of the program is the concatenation of its    *)
(* atoms, so split('\n'), startsWith('char id='), the regular expression   *)
(* of parseCharLine and the template of createCharLine are all computed    *)
(* on the same representation.                                             *)
(*                                                                         *)
(* The module also models the previewer (class BitmapPreviewer): its drop  *)
(* handler, its Tweakpane handlers, its resize listener, the gsap tween    *)
(* of options.value and the diagnostic sweep performDigitTesting.          *)
(***************************************************************************)
EXTENDS Integers, Sequences, FiniteSets, TLC

VARIABLES
    originalFontData,   \* BitmapFontFixer.originalFontData (Null or a text)
    fixedFontData,      \* BitmapFontFixer.fixedFontData (Null or a text)
    dropAreaInDom,      \* whether #dropArea is still in the document
    inv,                \* per drop event: the async drop handler's position and locals
    downloads,          \* files offered by downloadFixedFontFile, in order
    console,            \* what the program wrote to the console, in order
    rawText,            \* the text a pass of the fixer was given
    pass,               \* number of passes of the fixer done on rawText
    result,             \* outcome of the first pass
    result2,            \* outcome of the pass on the first pass's own output
    variant,            \* which previewer source runs: "kerning" or "width"
    previewDropArea,    \* whether the previewer's #dropArea is in the document
    load,               \* the previewer's drop handler: position, image reads left
    currentFontName,    \* BitmapPreviewer.currentFontName is set
    bitmapText,         \* BitmapPreviewer.bitmapText: whether set, and its text
    options,            \* BitmapPreviewer.options: start, value, end, format
    pane,               \* BitmapPreviewer.pane is set
    ticker,             \* BitmapPreviewer.ticker and the tween it refers to
    tweens,             \* tweens made and not killed that ticker does not refer to
    sweep               \* performDigitTesting: position and locals

tweenVars == <<ticker, tweens>>

previewVars == <<variant, previewDropArea, load, currentFontName, bitmapText,
                 options, pane, tweenVars, sweep>>

vars == <<originalFontData, fixedFontData, dropAreaInDom, inv, downloads,
          console, rawText, pass, result, result2, previewVars>>

----------------------------------------------------------------------------
(* Atoms and strings *)

Atom(k, v) == [key |-> k, val |-> v]

NL == Atom("NL", 0)
CharWord == Atom("char", 0)
Tok(k, v) == Atom(k, v)

\* The value of a field that is null / of a string-typed field never assigned.
Null == << Atom("null", 0) >>

\* The empty string ''.
EmptyText == << >>

RECURSIVE FirstNL(_, _)
\* Index of the first line feed of s at or after i; 0 when there is none.
FirstNL(s, i) ==
    IF i > Len(s) THEN 0
    ELSE IF s[i] = NL THEN i
    ELSE FirstNL(s, i + 1)

RECURSIVE Split(_)
\* String.prototype.split('\n'): the pieces between line feeds; k line feeds
\* give k + 1 pieces, the empty string gives one empty piece.
Split(s) ==
    LET i == FirstNL(s, 1) IN
    IF i = 0 THEN << s >>
    ELSE << SubSeq(s, 1, i - 1) >> \o Split(SubSeq(s, i + 1, Len(s)))

RECURSIVE Join(_)
\* The pieces joined by line feeds (the inverse of Split).
Join(ls) ==
    IF Len(ls) = 0 THEN << >>
    ELSE IF Len(ls) = 1 THEN ls[1]
    ELSE ls[1] \o << NL >> \o Join(Tail(ls))

\* line.startsWith('char id=')
StartsWithCharId(line) ==
    /\ Len(line) >= 2
    /\ line[1] = CharWord
    /\ line[2].key = "id"

----------------------------------------------------------------------------
(* parseCharLine *)

RECURSIVE FindTok(_, _, _, _)
\* One step of the regular expression, ".*?key=(\d+)" or ".*?key=(-?\d+)":
\* the first token at or after position from whose key is key and whose value
\* has the form the group accepts (neg: a leading minus is allowed); 0 if none.
FindTok(line, from, key, neg) ==
    IF from > Len(line) THEN 0
    ELSE IF line[from].key = key /\ (neg \/ line[from].val >= 0) THEN from
    ELSE FindTok(line, from + 1, key, neg)

\* The groups of the regular expression of parseCharLine, in its order:
\* <<key, whether the group accepts a leading minus>>.
\*   /id=(\d+).*?x=(\d+).*?y=(\d+).*?width=(\d+).*?height=(\d+)
\*    .*?xoffset=(-?\d+).*?yoffset=(-?\d+).*?xadvance=(\d+)/
Groups ==
    << <<"id", FALSE>>, <<"x", FALSE>>, <<"y", FALSE>>, <<"width", FALSE>>,
       <<"height", FALSE>>, <<"xoffset", TRUE>>, <<"yoffset", TRUE>>,
       <<"xadvance", FALSE>> >>

RECURSIVE MatchFrom(_, _, _, _)
\* The groups from group g on, matched from position from on, appended to the
\* groups captured so far; << >> when one of them finds no token.
MatchFrom(line, from, g, captured) ==
    IF g > Len(Groups) THEN captured
    ELSE LET p == FindTok(line, from, Groups[g][1], Groups[g][2]) IN
         IF p = 0 THEN << >>
         ELSE MatchFrom(line, p + 1, g + 1, Append(captured, line[p].val))

\* line.match(...): the eight captured groups, or << >> for null.  The
\* quantifiers are lazy and every group's token is independent of the others,
\* so the match is the earliest token of each key after the previous group's.
CharLineMatch(line) == MatchFrom(line, 1, 1, << >>)

Glyph(ok, id, xo, yo, w, h, xa) ==
    [ok |-> ok, id |-> id, xoffset |-> xo, yoffset |-> yo,
     width |-> w, height |-> h, xadvance |-> xa]

\* What parseCharLine gives when it throws Error("Malformed char line: ...").
Malformed == Glyph(FALSE, 0, 0, 0, 0, 0, 0)

\* parseCharLine as it would be if a line that does not match gave a record of
\* zeros instead of throwing.
parseCharLineLenient(line) ==
    LET match == CharLineMatch(line) IN
    IF match = << >> THEN Glyph(TRUE, 0, 0, 0, 0, 0, 0)
    ELSE Glyph(TRUE, match[1], match[2], match[3], match[4], match[5], match[6])

\* parseCharLine: the record is built from groups 1, 2, 3, 4, 5 and 6.
parseCharLine(line) ==
    LET match == CharLineMatch(line) IN
    IF match = << >> THEN Malformed
    ELSE Glyph(TRUE, match[1], match[2], match[3], match[4], match[5], match[6])

\* createCharLine: char id= xoffset= yoffset= width= height= xadvance=
createCharLine(data) ==
    << CharWord, Tok("id", data.id), Tok("xoffset", data.xoffset),
       Tok("yoffset", data.yoffset), Tok("width", data.width),
       Tok("height", data.height), Tok("xadvance", data.xadvance) >>

----------------------------------------------------------------------------
(* analyzeFontAndFixIssues *)

\* Math.max(0, v)
Max0(v) == IF v > 0 THEN v ELSE 0

Issue(kind, id, a, b) == [kind |-> kind, id |-> id, a |-> a, b |-> b]

\* "Glyph ID <id>: xOffset(<x>) or yOffset(<y>) found negative, fixing to 0."
OffsetIssue(g) == Issue("offset", g.id, g.xoffset, g.yoffset)

\* "Glyph ID <id>: xOffset + width (<sum>) exceeds xAdvance (<xadvance>),
\*  adjusting xAdvance."
AdvanceIssue(g) == Issue("advance", g.id, g.xoffset + g.width, g.xadvance)

\* The offsets test and fix: the glyph and the messages pushed.
fixOffsets(g) ==
    IF g.width > 0 /\ (g.xoffset < 0 \/ g.yoffset < 0)
    THEN [glyph  |-> [g EXCEPT !.xoffset = Max0(g.xoffset),
                               !.yoffset = Max0(g.yoffset)],
          issues |-> << OffsetIssue(g) >>]
    ELSE [glyph |-> g, issues |-> << >>]

\* fixAdvance as it would be if the new xadvance left the offset out.
fixAdvanceNoOffset(g) ==
    IF g.xoffset + g.width > g.xadvance
    THEN [glyph  |-> [g EXCEPT !.xadvance = g.width + 1],
          issues |-> << AdvanceIssue(g) >>]
    ELSE [glyph |-> g, issues |-> << >>]

\* fixAdvance as it would be if a zero-width glyph were exempt from it too.
fixAdvanceWidthOnly(g) ==
    IF g.width > 0 /\ g.xoffset + g.width > g.xadvance
    THEN [glyph  |-> [g EXCEPT !.xadvance = g.xoffset + g.width + 1],
          issues |-> << AdvanceIssue(g) >>]
    ELSE [glyph |-> g, issues |-> << >>]

\* The bounds test and fix: the glyph and the messages pushed.
fixAdvance(g) ==
    IF g.xoffset + g.width > g.xadvance
    THEN [glyph  |-> [g EXCEPT !.xadvance = g.xoffset + g.width + 1],
          issues |-> << AdvanceIssue(g) >>]
    ELSE [glyph |-> g, issues |-> << >>]

\* preserveLine as it would be if the line were trimmed (line.trim()) before
\* it is appended: a trailing carriage return is lost.
preserveLineTrimmed(line) ==
    (IF Len(line) > 0 /\ line[Len(line)] = Atom("CR", 0)
     THEN SubSeq(line, 1, Len(line) - 1)
     ELSE line) \o << NL >>

\* The text appended to fixedData for a line that is not a char line.
preserveLine(line) == line \o << NL >>

\* The text appended to fixedData for a parsed char line.
appendCharLine(g) == createCharLine(g) \o << NL >>

\* The body of the for loop for one line: whether parseCharLine threw, the
\* text appended to fixedData and the messages pushed to issues.
fixLine(line) ==
    IF StartsWithCharId(line)
    THEN LET glyphData == parseCharLine(line) IN
         IF ~glyphData.ok
         THEN [threw |-> TRUE, out |-> << >>, issues |-> << >>]
         ELSE LET o == fixOffsets(glyphData)
                  b == fixAdvance(o.glyph)
              IN  [threw  |-> FALSE,
                   out    |-> appendCharLine(b.glyph),
                   issues |-> o.issues \o b.issues]
    ELSE [threw |-> FALSE, out |-> preserveLine(line), issues |-> << >>]

RECURSIVE fixLines(_, _, _, _)
\* The for loop from line i on, with fixedData and issues as accumulated so
\* far; a throw of parseCharLine leaves the loop at once.
fixLines(lines, i, fixedData, issues) ==
    IF i > Len(lines)
    THEN [threw |-> FALSE, fixedData |-> fixedData, issues |-> issues]
    ELSE LET r == fixLine(lines[i]) IN
         IF r.threw
         THEN [threw |-> TRUE, fixedData |-> fixedData, issues |-> issues]
         ELSE fixLines(lines, i + 1, fixedData \o r.out, issues \o r.issues)

FixResult(threw, ret, issues, stored, noData) ==
    [threw |-> threw, ret |-> ret, issues |-> issues,
     stored |-> stored, noData |-> noData]

\* No call made yet.
NoResult == FixResult(FALSE, Null, << >>, FALSE, FALSE)

\* analyzeFontAndFixIssues on this.originalFontData = data:
\*   threw   an Error left the function (nothing returned, nothing stored);
\*   ret     the string returned;
\*   issues  the messages logged in the console group;
\*   stored  this.fixedFontData was assigned ret;
\*   noData  the "No font data to process." branch was taken.
analyzeFontAndFixIssues(data) ==
    IF data = Null \/ data = EmptyText
    THEN FixResult(FALSE, EmptyText, << >>, FALSE, TRUE)
    ELSE LET r == fixLines(Split(data), 1, EmptyText, << >>) IN
         IF r.threw
         THEN FixResult(TRUE, Null, << >>, FALSE, FALSE)
         ELSE FixResult(FALSE, r.fixedData, r.issues, TRUE, FALSE)

----------------------------------------------------------------------------
(* Descriptor texts given to the fixer *)

\* Longest descriptor, in lines, the fixer is given.
MaxLines == 2

GlyphLine(id, x, y, w, h, xo, yo, xa) ==
    << CharWord, Tok("id", id), Tok("x", x), Tok("y", y), Tok("width", w),
       Tok("height", h), Tok("xoffset", xo), Tok("yoffset", yo),
       Tok("xadvance", xa) >>

\* <<id, width, height, xadvance>> of the glyphs used.
Shapes == { <<5, 10, 12, 8>>, <<9, 6, 10, 9>>, <<32, 0, 0, 8>> }
\* <<x, y>>: positions in the atlas.
AtlasPos == { <<0, 0>>, <<3, 1>> }
XOffsets == { -3, 2 }
YOffsets == { -2, 1 }

\* Char lines as a descriptor file has them: the eight fields in the usual order.
StdGlyphLines ==
    { GlyphLine(s[1], p[1], p[2], s[2], s[3], xo, yo, s[4]) :
        s \in Shapes, p \in AtlasPos, xo \in XOffsets, yo \in YOffsets }

\* char id=2 width=5
ShortGlyphLine == << CharWord, Tok("id", 2), Tok("width", 5) >>

\* A usual char line followed by page=0 chnl=15.
ExtraGlyphLine ==
    GlyphLine(9, 0, 0, 6, 10, 2, 1, 9) \o << Tok("page", 0), Tok("chnl", 15) >>

\* The eight fields of a usual char line with the offsets before the atlas
\* position: char id=9 xoffset=2 yoffset=1 x=0 y=0 width=6 height=10 xadvance=9
ReorderedGlyphLine ==
    << CharWord, Tok("id", 9), Tok("xoffset", 2), Tok("yoffset", 1), Tok("x", 0),
       Tok("y", 0), Tok("width", 6), Tok("height", 10), Tok("xadvance", 9) >>

\* info, info followed by a carriage return, chars count=1, and the empty line.
OpaqueLines ==
    { << >>,
      << Atom("info", 0) >>,
      << Atom("info", 0), Atom("CR", 0) >>,
      << Atom("chars", 0), Tok("count", 1) >> }

InputLines ==
    OpaqueLines \cup StdGlyphLines
        \cup { ShortGlyphLine, ExtraGlyphLine, ReorderedGlyphLine }

\* Every text of 1..MaxLines pieces (split at line feeds) over InputLines; it
\* ends with a line feed when its last piece is the empty line.
InputTexts ==
    { Join(ls) : ls \in UNION { [1..n -> InputLines] : n \in 1..MaxLines } }

----------------------------------------------------------------------------
(* The fixer as a function of its input: one pass, then a pass on its output *)

\* The fields of a BitmapPreviewer after its constructor, and a sweep and a
\* drop handler that have not run.
NoText == [exists |-> FALSE, text |-> ""]
NoTicker == [exists |-> FALSE, live |-> FALSE, started |-> FALSE,
             from |-> 0, to |-> 0, step |-> 0]
NoSweep == [pc |-> "idle", number |-> 0, testString |-> ""]
InitOptions == [start |-> 0, value |-> 0, end |-> 100, format |-> FALSE]

InitPreviewer ==
    /\ previewDropArea = TRUE
    /\ load = [pc |-> "idle", imagesLeft |-> 0]
    /\ currentFontName = FALSE
    /\ bitmapText = NoText
    /\ options = InitOptions
    /\ pane = FALSE
    /\ ticker = NoTicker
    /\ tweens = << >>
    /\ sweep = NoSweep

InitObject ==
    /\ originalFontData = Null
    /\ fixedFontData = Null
    /\ dropAreaInDom = TRUE
    /\ inv = << >>
    /\ downloads = << >>
    /\ console = << >>

InitFix ==
    /\ InitObject
    /\ variant = "kerning"
    /\ InitPreviewer
    /\ rawText \in InputTexts
    /\ pass = 0
    /\ result = NoResult
    /\ result2 = NoResult

objectVars == <<originalFontData, fixedFontData, dropAreaInDom, inv,
                downloads, console>>

\* fix(rawText)
FixOnce ==
    /\ pass = 0
    /\ result' = analyzeFontAndFixIssues(rawText)
    /\ pass' = 1
    /\ UNCHANGED <<objectVars, rawText, result2, previewVars>>

\* fix applied to the corrected text the first pass returned
FixAgain ==
    /\ pass = 1
    /\ ~result.threw
    /\ result2' = analyzeFontAndFixIssues(result.ret)
    /\ pass' = 2
    /\ UNCHANGED <<objectVars, rawText, result, previewVars>>

NextFix == FixOnce \/ FixAgain

SpecFix == InitFix /\ [][NextFix]_vars

----------------------------------------------------------------------------
(* The page: drops on #dropArea and the async drop handler *)

\* Most drop events in one run.
MaxDrops == 2

\* A file name is the sequence of its parts; an extension is one part.
File(name, text) == [name |-> name, text |-> text]

\* file.name.endsWith('.fnt')
IsFnt(file) == Len(file.name) > 0 /\ file.name[Len(file.name)] = ".fnt"

\* /\.(png|jpg|jpeg|webp)$/i.test(file.name)
IsImage(file) ==
    /\ Len(file.name) > 0
    /\ file.name[Len(file.name)] \in
           {".png", ".jpg", ".jpeg", ".webp", ".PNG", ".JPG", ".JPEG", ".WEBP"}

RECURSIVE FirstPart(_, _, _)
\* Index of the first part of name equal to part at or after i; 0 if none.
FirstPart(name, part, i) ==
    IF i > Len(name) THEN 0
    ELSE IF name[i] = part THEN i
    ELSE FirstPart(name, part, i + 1)

\* fntFile.name.replace('.fnt', '_fixed.fnt'): the first occurrence only.
FixedName(name) ==
    LET i == FirstPart(name, ".fnt", 1) IN
    IF i = 0 THEN name
    ELSE SubSeq(name, 1, i - 1) \o << "_fixed", ".fnt" >>
         \o SubSeq(name, i + 1, Len(name))

RECURSIVE FindFnt(_, _)
\* files.find((file) => file.name.endsWith('.fnt')): index of the first, or 0.
FindFnt(files, i) ==
    IF i > Len(files) THEN 0
    ELSE IF IsFnt(files[i]) THEN i
    ELSE FindFnt(files, i + 1)

\* files.filter(image test).length
ImageCount(files) == Cardinality({ i \in 1..Len(files) : IsImage(files[i]) })

\* Descriptor files of the runs.
GoodText ==
    Join(<< << Atom("info", 0) >>, GlyphLine(9, 0, 0, 6, 10, 2, 1, 9), << >> >>)
NegText ==
    Join(<< << Atom("info", 0) >>, GlyphLine(5, 0, 0, 10, 12, -3, -2, 8) >>)
\* A char line that parses, then char id=2 width=5.
BadText ==
    Join(<< GlyphLine(5, 3, 1, 10, 12, -3, -2, 8), ShortGlyphLine, << >> >>)

\* char id=2 width=5 first, then lines that parse.
BadFirstText ==
    Join(<< ShortGlyphLine, << Atom("info", 0) >>, GlyphLine(9, 0, 0, 6, 10, 2, 1, 9) >>)

GoodFnt == File(<< "good", ".fnt" >>, GoodText)
NegFnt == File(<< "arial", ".fnt", ".fnt" >>, NegText)
BadFnt == File(<< "bad", ".fnt" >>, BadText)
BadFirstFnt == File(<< "bad2", ".fnt" >>, BadFirstText)
EmptyFnt == File(<< "empty", ".fnt" >>, EmptyText)
Png == File(<< "atlas", ".png" >>, EmptyText)
Jpg == File(<< "atlas2", ".JPG" >>, EmptyText)
Txt == File(<< "notes", ".txt" >>, EmptyText)

\* e.dataTransfer.files of the drop events.
Payloads ==
    { << GoodFnt, Png >>, << Png, NegFnt, Jpg >>, << BadFnt, Png >>,
      << BadFirstFnt, Jpg >>,
      << EmptyFnt, Png >>, << GoodFnt >>, << Png >>, << Txt, GoodFnt >>, << >> }

NoFile == File(<< >>, EmptyText)

\* One run of the async drop handler: where it stands, its locals files and
\* fntFile, the image reads not yet resolved, and the error it ended with.
Invocation(pc, files, fnt, left, error) ==
    [pc |-> pc, files |-> files, fntFile |-> fnt, imagesLeft |-> left,
     error |-> error]

Init ==
    /\ InitObject
    /\ variant = "kerning"
    /\ InitPreviewer
    /\ rawText = EmptyText
    /\ pass = 0
    /\ result = NoResult
    /\ result2 = NoResult

fixVars == <<rawText, pass, result, result2>>

\* Drop as it would be if the handler tested the descriptor file only
\* (if (fntFile) instead of if (fntFile && imageFiles.length > 0)).
DropDescriptorOnly(files) ==
    /\ dropAreaInDom
    /\ Len(inv) < MaxDrops
    /\ LET f == FindFnt(files, 1)
           n == ImageCount(files)
       IN  inv' = Append(inv,
                IF f # 0
                THEN Invocation("readText", files, files[f], n, "none")
                ELSE Invocation("done", files, NoFile, 0, "none"))
    /\ UNCHANGED <<originalFontData, fixedFontData, dropAreaInDom, downloads,
                   console, fixVars, previewVars>>

\* A drop event: the handler runs up to its first await.
Drop(files) ==
    /\ dropAreaInDom
    /\ Len(inv) < MaxDrops
    /\ LET f == FindFnt(files, 1)
           n == ImageCount(files)
       IN  inv' = Append(inv,
                IF f # 0 /\ n > 0
                THEN Invocation("readText", files, files[f], n, "none")
                ELSE Invocation("done", files, NoFile, 0, "none"))
    /\ UNCHANGED <<originalFontData, fixedFontData, dropAreaInDom, downloads,
                   console, fixVars, previewVars>>

\* loadBitmapFont: readFileAsText resolved; originalFontData is assigned and
\* the first image read is awaited.
TextRead(d) ==
    /\ inv[d].pc = "readText"
    /\ originalFontData' = inv[d].fntFile.text
    /\ inv' = [inv EXCEPT ![d].pc = "readImage"]
    /\ UNCHANGED <<fixedFontData, dropAreaInDom, downloads, console, fixVars,
                   previewVars>>

\* loadBitmapFont: an image read resolved and another image is awaited.
ImageRead(d) ==
    /\ inv[d].pc = "readImage"
    /\ inv[d].imagesLeft > 1
    /\ inv' = [inv EXCEPT ![d].imagesLeft = @ - 1]
    /\ UNCHANGED <<originalFontData, fixedFontData, dropAreaInDom, downloads,
                   console, fixVars, previewVars>>

\* A FileReader fails (reader.onerror = reject), or the font cannot be
\* installed: loadBitmapFont rejects and so does the handler.
LoadFails(d) ==
    /\ inv[d].pc \in {"readText", "readImage"}
    /\ inv' = [inv EXCEPT ![d].pc = "rejected", ![d].error = "load"]
    /\ UNCHANGED <<originalFontData, fixedFontData, dropAreaInDom, downloads,
                   console, fixVars, previewVars>>

\* The console output of analyzeFontAndFixIssues.
ConsoleOf(r) ==
    IF r.noData THEN << [kind |-> "error", issues |-> << >>] >>
    ELSE << [kind |-> "group", issues |-> r.issues] >>

\* downloadFixedFontFile(data, filename)
Download(data, filename) == [data |-> data, filename |-> filename]

\* The last image read resolved: loadBitmapFont returns and the handler runs
\* to its end: the drop area is removed, the font is analyzed and fixed, and
\* the fixed file is offered for download.
FinishLoad(d) ==
    /\ inv[d].pc = "readImage"
    /\ inv[d].imagesLeft = 1
    /\ IF ~dropAreaInDom
       THEN \* document.getElementById('dropArea') is null: TypeError
            /\ inv' = [inv EXCEPT ![d].pc = "rejected", ![d].error = "dom",
                                  ![d].imagesLeft = 0]
            /\ UNCHANGED <<fixedFontData, dropAreaInDom, downloads, console>>
       ELSE LET r == analyzeFontAndFixIssues(originalFontData) IN
            /\ dropAreaInDom' = FALSE
            /\ IF r.threw
               THEN /\ inv' = [inv EXCEPT ![d].pc = "rejected",
                                          ![d].error = "malformed",
                                          ![d].imagesLeft = 0]
                    /\ UNCHANGED <<fixedFontData, downloads, console>>
               ELSE /\ inv' = [inv EXCEPT ![d].pc = "done", ![d].imagesLeft = 0]
                    /\ fixedFontData' = IF r.stored THEN r.ret ELSE fixedFontData
                    /\ console' = console \o ConsoleOf(r)
                    /\ downloads' = Append(downloads,
                           Download(r.ret, FixedName(inv[d].fntFile.name)))
    /\ UNCHANGED <<originalFontData, fixVars, previewVars>>

Next ==
    \/ \E files \in Payloads : Drop(files)
    \/ \E d \in 1..Len(inv) : TextRead(d)
    \/ \E d \in 1..Len(inv) : ImageRead(d)
    \/ \E d \in 1..Len(inv) : LoadFails(d)
    \/ \E d \in 1..Len(inv) : FinishLoad(d)

Spec == Init /\ [][Next]_vars

----------------------------------------------------------------------------
(* Reading a descriptor the way its format defines it: by field name *)

HasField(line, key) == \E j \in 1..Len(line) : line[j].key = key

\* The value of the first key=value token of the line with that key.
Field(line, key) ==
    line[CHOOSE j \in 1..Len(line) :
            /\ line[j].key = key
            /\ \A k \in 1..(j - 1) : line[k].key # key].val

MandatoryFields == {"id", "x", "y", "width", "height", "xoffset", "yoffset", "xadvance"}
WrittenFields == {"id", "xoffset", "yoffset", "width", "height", "xadvance"}

\* A glyph-record line: it begins with the marker.
IsGlyphLine(line) == StartsWithCharId(line)

\* Invariant 1 and invariant 2 of a glyph record, on a line's own fields.
SatisfiesInv1(line) ==
    Field(line, "width") > 0 =>
        Field(line, "xoffset") >= 0 /\ Field(line, "yoffset") >= 0
SatisfiesInv2(line) ==
    Field(line, "xoffset") + Field(line, "width") <= Field(line, "xadvance")

\* The first pass ended without an error.
FixSucceeded == pass >= 1 /\ ~result.threw

InLines == Split(rawText)
OutLines == Split(result.ret)

\* Input glyph-record lines that carry every mandatory field.
FullGlyphLines ==
    { i \in 1..Len(InLines) :
        /\ IsGlyphLine(InLines[i])
        /\ \A k \in MandatoryFields : HasField(InLines[i], k) }

\* Line i is the only glyph-record line of the input with its glyph id, so
\* the messages naming that id are the messages about line i.
UniqueId(i) ==
    \A j \in 1..Len(InLines) :
        (j # i /\ IsGlyphLine(InLines[j])) =>
            Field(InLines[j], "id") # Field(InLines[i], "id")

MsgsFor(i, kind) ==
    SelectSeq(result.issues,
              LAMBDA m : m.id = Field(InLines[i], "id") /\ m.kind = kind)

\* Output line i is a glyph-record line carrying the six written fields.
OutGlyphAt(i) ==
    /\ i <= Len(OutLines)
    /\ IsGlyphLine(OutLines[i])
    /\ \A k \in WrittenFields : HasField(OutLines[i], k)

----------------------------------------------------------------------------
(* Claims about the fixer as a function (specification SpecFix) *)

\* C1 (as claimed): whenever fix succeeds on a text, fix applied to the
\* corrected text succeeds too, returns that same text and logs no correction.
C1_Idempotent ==
    (pass = 2 /\ ~result.threw) =>
        /\ ~result2.threw
        /\ result2.ret = result.ret
        /\ result2.issues = << >>

\* C2 (as claimed): a glyph-record line whose fields satisfy both invariants
\* keeps the values of id, xoffset, yoffset, width, height and xadvance in the
\* output line, and no correction message is logged for it.
C2_UnchangedWhenValid ==
    FixSucceeded =>
        \A i \in FullGlyphLines :
            (SatisfiesInv1(InLines[i]) /\ SatisfiesInv2(InLines[i])) =>
                /\ OutGlyphAt(i)
                /\ \A k \in WrittenFields :
                       Field(OutLines[i], k) = Field(InLines[i], k)
                /\ UniqueId(i) =>
                       /\ MsgsFor(i, "offset") = << >>
                       /\ MsgsFor(i, "advance") = << >>

\* C3: after a successful fix every glyph-record line of the corrected text
\* has xoffset >= 0 and yoffset >= 0 when width > 0, and xoffset + width <=
\* xadvance.
C3_InvariantSatisfaction ==
    FixSucceeded =>
        \A i \in 1..Len(OutLines) :
            IsGlyphLine(OutLines[i]) =>
                /\ \A k \in WrittenFields : HasField(OutLines[i], k)
                /\ SatisfiesInv1(OutLines[i])
                /\ SatisfiesInv2(OutLines[i])

\* C3's case: a successful fix that rewrote the advance of a glyph-record line.
C3_Witness ==
    /\ FixSucceeded
    /\ \E i \in FullGlyphLines :
           /\ OutGlyphAt(i)
           /\ Field(OutLines[i], "xadvance") # Field(InLines[i], "xadvance")
           /\ Field(OutLines[i], "width") > 0

\* C4 (as claimed): for a glyph-record line with width > 0 and a negative
\* xoffset or yoffset, each negative offset is written as 0 (a non-negative one
\* keeps its value) and one message naming the glyph id and the original
\* offsets is logged.
C4_NegativeOffsetClamp ==
    FixSucceeded =>
        \A i \in FullGlyphLines :
            LET l == InLines[i] IN
            (Field(l, "width") > 0
               /\ (Field(l, "xoffset") < 0 \/ Field(l, "yoffset") < 0)) =>
                /\ OutGlyphAt(i)
                /\ Field(OutLines[i], "xoffset") = Max0(Field(l, "xoffset"))
                /\ Field(OutLines[i], "yoffset") = Max0(Field(l, "yoffset"))
                /\ UniqueId(i) =>
                       MsgsFor(i, "offset") =
                           << Issue("offset", Field(l, "id"),
                                    Field(l, "xoffset"), Field(l, "yoffset")) >>

\* The xoffset of a line after the invariant-1 clamp.
ClampedXOffset(l) ==
    IF Field(l, "width") > 0
         /\ (Field(l, "xoffset") < 0 \/ Field(l, "yoffset") < 0)
    THEN Max0(Field(l, "xoffset"))
    ELSE Field(l, "xoffset")

\* C5 (as claimed): with xo the xoffset after the clamp, if xo + width exceeds
\* the input xadvance the output xadvance is xo + width + 1 and one advance
\* message is logged; otherwise the output xadvance is the input xadvance and
\* no advance message is logged.
C5_AdvanceOverflow ==
    FixSucceeded =>
        \A i \in FullGlyphLines :
            LET l == InLines[i]
                xo == ClampedXOffset(l)
            IN  /\ OutGlyphAt(i)
                /\ IF xo + Field(l, "width") > Field(l, "xadvance")
                   THEN /\ Field(OutLines[i], "xadvance") = xo + Field(l, "width") + 1
                        /\ UniqueId(i) => Len(MsgsFor(i, "advance")) = 1
                   ELSE /\ Field(OutLines[i], "xadvance") = Field(l, "xadvance")
                        /\ UniqueId(i) => Len(MsgsFor(i, "advance")) = 0

\* C6 (as claimed): when fix raises no error, the corrected text has as many
\* lines as the raw text, both split at line feeds.
C6_LineCountPreserved ==
    FixSucceeded => Len(Split(result.ret)) = Len(Split(rawText))

\* C7 (as claimed): a text without any glyph-record line comes back identical,
\* line terminators included.
C7_OpaqueTextIdentical ==
    (FixSucceeded /\ \A i \in 1..Len(InLines) : ~IsGlyphLine(InLines[i])) =>
        result.ret = rawText

\* C8: every input line that does not begin with the glyph-record marker is,
\* at the same position of the output's line sequence, identical to the input
\* line.
C8_NonGlyphPassthrough ==
    FixSucceeded =>
        \A i \in 1..Len(InLines) :
            ~IsGlyphLine(InLines[i]) =>
                /\ i <= Len(OutLines)
                /\ OutLines[i] = InLines[i]

\* C8's case: a successful fix of a text that mixes a rewritten glyph-record
\* line with a non-empty opaque line following it.
C8_Witness ==
    /\ FixSucceeded
    /\ \E i, j \in 1..Len(InLines) :
           /\ i < j
           /\ IsGlyphLine(InLines[i])
           /\ OutLines[i] # InLines[i]
           /\ ~IsGlyphLine(InLines[j])
           /\ Len(InLines[j]) > 1

\* Glyph-record lines whose written field values differ between input and output.
ChangedGlyphLines ==
    { i \in FullGlyphLines :
        \/ ~OutGlyphAt(i)
        \/ \E k \in WrittenFields : Field(OutLines[i], k) # Field(InLines[i], k) }

\* C9 (as claimed): the correction log has as many entries as there are
\* glyph-record lines whose field values changed, and a glyph line already
\* satisfying both invariants contributes no entry.
C9_CorrectionCount ==
    FixSucceeded =>
        /\ Len(result.issues) = Cardinality(ChangedGlyphLines)
        /\ \A i \in FullGlyphLines :
               (SatisfiesInv1(InLines[i]) /\ SatisfiesInv2(InLines[i])
                  /\ UniqueId(i)) =>
                   /\ MsgsFor(i, "offset") = << >>
                   /\ MsgsFor(i, "advance") = << >>

\* Every glyph-record line of the input carries the eight mandatory fields,
\* each with a value of its type (only the offsets may be negative).
AllGlyphLinesComplete ==
    \A i \in 1..Len(InLines) :
        IsGlyphLine(InLines[i]) =>
            /\ i \in FullGlyphLines
            /\ \A k \in MandatoryFields \ {"xoffset", "yoffset"} :
                   Field(InLines[i], k) >= 0

\* C11 (as claimed): a glyph-record line that carries the eight mandatory
\* fields is parsed without a malformed-record error, whatever the order of
\* its tokens and whether or not further tokens are present, and with the
\* line's own values (seen in the fields the fixer never changes).
C11_OrderTolerantParsing ==
    (pass >= 1 /\ AllGlyphLinesComplete) =>
        /\ ~result.threw
        /\ \A i \in FullGlyphLines :
               /\ OutGlyphAt(i)
               /\ \A k \in {"id", "width", "height"} :
                      Field(OutLines[i], k) = Field(InLines[i], k)

\* C12 (as claimed): fix on the empty string returns the empty string and an
\* empty correction log, and does so on the ordinary path: no error is raised
\* and the "no data" error branch is not the one taken.
C12_EmptyInputNoOp ==
    (pass >= 1 /\ rawText = EmptyText) =>
        /\ ~result.threw
        /\ result.ret = EmptyText
        /\ result.issues = << >>
        /\ ~result.noData

\* C13 (as claimed): for a glyph-record line with width = 0 and a negative
\* xoffset or yoffset, the output xoffset and yoffset are the input line's
\* (still negative) and no negative-offset message is logged.
C13_ZeroWidthExemption ==
    FixSucceeded =>
        \A i \in FullGlyphLines :
            LET l == InLines[i] IN
            (Field(l, "width") = 0
               /\ (Field(l, "xoffset") < 0 \/ Field(l, "yoffset") < 0)) =>
                /\ OutGlyphAt(i)
                /\ Field(OutLines[i], "xoffset") = Field(l, "xoffset")
                /\ Field(OutLines[i], "yoffset") = Field(l, "yoffset")
                /\ UniqueId(i) => MsgsFor(i, "offset") = << >>

\* Positions of the correction log whose message names the glyph of line i.
LogPositions(i) ==
    { p \in 1..Len(result.issues) : result.issues[p].id = Field(InLines[i], "id") }

\* The messages of an earlier glyph-record line all come before the messages
\* of a later one.
LogInLineOrder ==
    \A i, j \in FullGlyphLines :
        (i < j /\ UniqueId(i) /\ UniqueId(j)) =>
            \A p \in LogPositions(i), q \in LogPositions(j) : p < q

\* By its own fields line i needs both corrections.
NeedsBothCorrections(i) ==
    LET l == InLines[i] IN
    /\ Field(l, "width") > 0
    /\ Field(l, "xoffset") < 0 \/ Field(l, "yoffset") < 0
    /\ ClampedXOffset(l) + Field(l, "width") > Field(l, "xadvance")

\* C17 (as claimed): the correction log follows the order of the glyph-record
\* lines, and a glyph that needs both corrections has its negative-offset
\* message in the log before its advance-overflow message.
C17_LogOrdering ==
    FixSucceeded =>
        /\ LogInLineOrder
        /\ \A i \in FullGlyphLines :
               (UniqueId(i) /\ NeedsBothCorrections(i)) =>
                   \E p, q \in LogPositions(i) :
                       /\ p < q
                       /\ result.issues[p].kind = "offset"
                       /\ result.issues[q].kind = "advance"

\* Input line i is a zero-width glyph record with a negative xoffset.
ZeroWidthNegative(i) ==
    /\ i \in FullGlyphLines
    /\ Field(InLines[i], "width") = 0
    /\ Field(InLines[i], "xoffset") < 0

\* C18: the advance test is not skipped for a zero-width glyph: whenever the
\* values parsed from a zero-width line with a negative xoffset fail
\* xoffset + width <= xadvance, the advance message is logged and xadvance is
\* rewritten to xoffset + width + 1 of the parsed values.
C18_ZeroWidthOverflow ==
    FixSucceeded =>
        \A i \in 1..Len(InLines) :
            LET g == parseCharLine(InLines[i]) IN
            (ZeroWidthNegative(i) /\ g.xoffset + g.width > g.xadvance) =>
                /\ OutGlyphAt(i)
                /\ Field(OutLines[i], "xadvance") = g.xoffset + g.width + 1
                /\ UniqueId(i) => MsgsFor(i, "advance") = << AdvanceIssue(g) >>

\* C18's case: a zero-width glyph line with a negative xoffset whose xadvance
\* was rewritten, with the advance message in the log.
C18_Witness ==
    /\ FixSucceeded
    /\ \E i \in 1..Len(InLines) :
           /\ ZeroWidthNegative(i)
           /\ UniqueId(i)
           /\ OutGlyphAt(i)
           /\ Field(OutLines[i], "xadvance") # Field(InLines[i], "xadvance")
           /\ Len(MsgsFor(i, "advance")) = 1

----------------------------------------------------------------------------
(* Claims about the drop handler (specification Spec) *)

\* Some line of the text begins with the glyph-record marker and lacks a
\* mandatory field.
HasIncompleteGlyphLine(text) ==
    /\ text # Null
    /\ \E i \in 1..Len(Split(text)) :
           /\ IsGlyphLine(Split(text)[i])
           /\ \E k \in MandatoryFields : ~HasField(Split(text)[i], k)

\* A step in which invocation d leaves loadBitmapFont for good.
LoadEnds(d) ==
    /\ inv[d].pc = "readImage"
    /\ inv[d].imagesLeft = 1
    /\ inv'[d].pc # "readImage"

\* C10: when the font data holds a line that begins with the glyph-record
\* marker and lacks a mandatory field, the handler that reaches the fix fails
\* with an error: fixedFontData keeps its value and no download is offered,
\* also when earlier lines were already processed.
C10_MalformedAborts ==
    [][\A d \in 1..Len(inv) :
          (LoadEnds(d) /\ HasIncompleteGlyphLine(originalFontData)) =>
              /\ inv'[d].pc = "rejected"
              /\ fixedFontData' = fixedFontData
              /\ downloads' = downloads]_vars

\* C10's case: the fix threw on a malformed line that follows a char line it
\* had already processed.
C10_Witness ==
    \E d \in 1..Len(inv) :
        /\ inv[d].pc = "rejected"
        /\ inv[d].error = "malformed"
        /\ HasIncompleteGlyphLine(originalFontData)
        /\ IsGlyphLine(Split(originalFontData)[1])
        /\ CharLineMatch(Split(originalFontData)[1]) # << >>
        /\ downloads = << >>
        /\ fixedFontData = Null
\* The drop of invocation d passed the handler's test and its run ended with
\* the download.
Downloaded(d) == inv[d].pc = "done" /\ inv[d].fntFile # NoFile

\* C14 (as claimed): a corrected file offered for download is computed from
\* the descriptor text of the drop that supplied its filename, also when
\* another drop arrived while the first one awaited its reads.
C14_IndependentInvocations ==
    \A d \in 1..Len(inv) :
        Downloaded(d) =>
            \E k \in 1..Len(downloads) :
                /\ downloads[k].filename = FixedName(inv[d].fntFile.name)
                /\ downloads[k].data =
                       analyzeFontAndFixIssues(inv[d].fntFile.text).ret

\* The name with _fixed put before its last part, the extension.
FixedBeforeExtension(name) ==
    SubSeq(name, 1, Len(name) - 1) \o << "_fixed", name[Len(name)] >>

\* C15 (as claimed): the suggested download filename of a descriptor file
\* whose name ends in .fnt is that name with _fixed inserted before the final
\* .fnt, also when .fnt occurs earlier in the name.
C15_DownloadFilename ==
    \A d \in 1..Len(inv) :
        Downloaded(d) =>
            \E k \in 1..Len(downloads) :
                downloads[k].filename = FixedBeforeExtension(inv[d].fntFile.name)

\* The dropped files hold a descriptor file and at least one image file.
HasBoth(files) ==
    /\ \E i \in 1..Len(files) : IsFnt(files[i])
    /\ \E i \in 1..Len(files) : IsImage(files[i])

fixerState == <<originalFontData, fixedFontData, downloads, console>>

\* C16: every step that assigns the font data, runs the fixer or offers a
\* download is a step of an invocation whose drop held both a .fnt file and an
\* image file; an invocation whose drop lacked either one is over at once,
\* and its drop step leaves originalFontData, fixedFontData, the downloads
\* and the console unchanged.
C16_UpstreamGuard ==
    [][/\ fixerState' # fixerState =>
              \E d \in 1..Len(inv) : HasBoth(inv[d].files) /\ inv'[d] # inv[d]
       /\ \A d \in 1..Len(inv') :
              ~HasBoth(inv'[d].files) =>
                  /\ inv'[d].pc = "done"
                  /\ inv'[d].fntFile = NoFile
                  /\ d > Len(inv) => fixerState' = fixerState]_vars

\* C16's case: a drop without an image or without a descriptor was handled,
\* and a drop with both went through the fix to its download.
C16_Witness ==
    \E d1, d2 \in 1..Len(inv) :
        /\ Len(inv[d1].files) > 0
        /\ ~HasBoth(inv[d1].files)
        /\ inv[d1].pc = "done"
        /\ HasBoth(inv[d2].files)
        /\ Downloaded(d2)
        /\ Len(downloads) = 1
----------------------------------------------------------------------------
(* The previewer (class BitmapPreviewer) *)

\* The two sources of the previewer that run the sweep: the one that adjusts
\* kerning and redraws the bounding box, and the one that compares widths.
Variants == {"kerning", "width"}

\* Steps a tween takes from its start value to its end value.
TweenSteps == 2

\* for (let number = 10; number < 100; number++)
SweepFirst == 10
SweepEnd == 100

\* Values the start and end sliders are moved to.
StartVals == {0, 42}
EndVals == {100, 1200}

\* n written with three digits.
Pad3(n) ==
    IF n < 10 THEN "00" \o ToString(n)
    ELSE IF n < 100 THEN "0" \o ToString(n)
    ELSE ToString(n)

RECURSIVE Grouped(_)
\* The integer digits of toLocaleString("en-US"): groups of three, commas.
Grouped(n) ==
    IF n < 1000 THEN ToString(n)
    ELSE Grouped(n \div 1000) \o "," \o Pad3(n % 1000)

\* formatNumber(value), for the whole numbers options.value takes here
formatNumber(opts, value) ==
    IF opts.format THEN Grouped(value) \o ".00" ELSE ToString(value)

\* updateDisplayedText(): the new this.bitmapText
updateDisplayedText(bt, opts) ==
    IF bt.exists THEN [bt EXCEPT !.text = formatNumber(opts, opts.value)] ELSE bt

\* updateBitmapText(): the new this.bitmapText, a new object showing "0" and
\* then given the text of options.value
updateBitmapText(bt, font, opts) ==
    IF font THEN updateDisplayedText([exists |-> TRUE, text |-> "0"], opts)
    ELSE bt

\* stopTicker as it would be without options.value = options.start.
stopTickerKeepValue(tk, opts) ==
    IF tk.exists
    THEN [ticker |-> NoTicker, options |-> opts]
    ELSE [ticker |-> tk, options |-> opts]

\* stopTicker(): the new ticker and options; the tween ticker referred to is
\* killed, so it is in neither.
stopTicker(tk, opts) ==
    IF tk.exists
    THEN [ticker |-> NoTicker, options |-> [opts EXCEPT !.value = opts.start]]
    ELSE [ticker |-> tk, options |-> opts]

\* gsap.to(this.options, {value: this.options.end, ...}): the end value is
\* taken now, the start value when the tween first runs.
NewTween(opts) ==
    [exists |-> TRUE, live |-> TRUE, started |-> FALSE,
     from |-> 0, to |-> opts.end, step |-> 0]

\* The value a linear tween has after step of TweenSteps steps.
TweenValue(from, to, step) == from + ((to - from) * step) \div TweenSteps
\* The loop test as it would be with <= in place of <.
LoopContinuesInclusive(number) == number <= SweepEnd

\* number < 100
LoopContinues(number) == number < SweepEnd

InitSweep ==
    /\ InitObject
    /\ rawText = EmptyText
    /\ pass = 0
    /\ result = NoResult
    /\ result2 = NoResult
    /\ variant \in Variants
    /\ InitPreviewer

fixerVars == <<objectVars, fixVars>>

\* A drop event on the previewer: the drop area is removed first; with a
\* descriptor file and an image the handler awaits the read of the text.
PreviewDrop(files) ==
    /\ previewDropArea
    /\ previewDropArea' = FALSE
    /\ load' = IF FindFnt(files, 1) # 0 /\ ImageCount(files) > 0
               THEN [pc |-> "readText", imagesLeft |-> ImageCount(files)]
               ELSE [pc |-> "ignored", imagesLeft |-> 0]
    /\ UNCHANGED <<variant, currentFontName, bitmapText, options, pane, tweenVars,
                   sweep, fixerVars>>

\* loadBitmapFont: readFileAsText resolved, the first image read is awaited.
PreviewTextRead ==
    /\ load.pc = "readText"
    /\ load' = [load EXCEPT !.pc = "readImage"]
    /\ UNCHANGED <<variant, previewDropArea, currentFontName, bitmapText,
                   options, pane, tweenVars, sweep, fixerVars>>

\* loadBitmapFont: an image read resolved and another image is awaited.
PreviewImageRead ==
    /\ load.pc = "readImage"
    /\ load.imagesLeft > 1
    /\ load' = [load EXCEPT !.imagesLeft = @ - 1]
    /\ UNCHANGED <<variant, previewDropArea, currentFontName, bitmapText,
                   options, pane, tweenVars, sweep, fixerVars>>

\* A FileReader fails or PIXI.BitmapFont.install throws: the handler rejects.
PreviewLoadFails ==
    /\ load.pc \in {"readText", "readImage"}
    /\ load' = [pc |-> "rejected", imagesLeft |-> 0]
    /\ UNCHANGED <<variant, previewDropArea, currentFontName, bitmapText,
                   options, pane, tweenVars, sweep, fixerVars>>

\* The last image read resolved: the font is installed, updateBitmapText
\* runs, and the handler goes on: performDigitTesting runs up to its first
\* sleep (the text shows the first number) and initTweakpane makes the pane.
PreviewLoaded ==
    /\ load.pc = "readImage"
    /\ load.imagesLeft = 1
    /\ load' = [pc |-> "loaded", imagesLeft |-> 0]
    /\ currentFontName' = TRUE
    /\ LET bt == updateBitmapText(bitmapText, TRUE, options) IN
       IF ~bt.exists
       THEN bitmapText' = bt /\ sweep' = [sweep EXCEPT !.pc = "skipped"]
       ELSE /\ bitmapText' = [bt EXCEPT !.text = ToString(SweepFirst)]
            /\ sweep' = [pc |-> "sleeping", number |-> SweepFirst,
                         testString |-> ToString(SweepFirst)]
    /\ pane' = TRUE
    /\ UNCHANGED <<variant, previewDropArea, options, tweenVars, fixerVars>>

\* The timer of sleep(24) fires: the bounds of this.bitmapText are read, the
\* loop goes to the next number and sets the text, or the loop is over, the
\* text is set to "" and, in the kerning source, updateBitmapText runs.
SleepFires ==
    /\ sweep.pc = "sleeping"
    /\ IF LoopContinues(sweep.number + 1)
       THEN /\ sweep' = [sweep EXCEPT !.number = @ + 1,
                                      !.testString = ToString(sweep.number + 1)]
            /\ bitmapText' = [bitmapText EXCEPT !.text = ToString(sweep.number + 1)]
       ELSE /\ sweep' = [sweep EXCEPT !.pc = "done"]
            /\ bitmapText' =
                   IF variant = "kerning"
                   THEN updateBitmapText([bitmapText EXCEPT !.text = ""],
                                         currentFontName, options)
                   ELSE [bitmapText EXCEPT !.text = ""]
    /\ UNCHANGED <<variant, previewDropArea, load, currentFontName, options,
                   pane, tweenVars, fixerVars>>
\* window resize: the renderer is resized and updateBitmapText runs.
Resize ==
    /\ bitmapText' = updateBitmapText(bitmapText, currentFontName, options)
    /\ UNCHANGED <<variant, previewDropArea, load, currentFontName, options,
                   pane, tweenVars, sweep, fixerVars>>

\* The start slider is moved to v: value becomes start, the text is updated.
StartChanged(v) ==
    /\ pane
    /\ v # options.start
    /\ options' = [options EXCEPT !.start = v, !.value = v]
    /\ bitmapText' = updateDisplayedText(bitmapText, options')
    /\ UNCHANGED <<variant, previewDropArea, load, currentFontName, pane,
                   tweenVars, sweep, fixerVars>>

\* The end slider is moved to v: the binding has no change handler.
EndChanged(v) ==
    /\ pane
    /\ v # options.end
    /\ options' = [options EXCEPT !.end = v]
    /\ UNCHANGED <<variant, previewDropArea, load, currentFontName, bitmapText,
                   pane, tweenVars, sweep, fixerVars>>

\* The fontSize slider is moved: updateBitmapText runs.
FontSizeChanged ==
    /\ pane
    /\ bitmapText' = updateBitmapText(bitmapText, currentFontName, options)
    /\ UNCHANGED <<variant, previewDropArea, load, currentFontName, options,
                   pane, tweenVars, sweep, fixerVars>>

\* The format box is toggled: the text is updated.
FormatChanged ==
    /\ pane
    /\ options' = [options EXCEPT !.format = ~@]
    /\ bitmapText' = updateDisplayedText(bitmapText, options')
    /\ UNCHANGED <<variant, previewDropArea, load, currentFontName, pane,
                   tweenVars, sweep, fixerVars>>

\* The duration slider is moved: updateBitmapText runs.
DurationChanged ==
    /\ pane
    /\ bitmapText' = updateBitmapText(bitmapText, currentFontName, options)
    /\ UNCHANGED <<variant, previewDropArea, load, currentFontName, options,
                   pane, tweenVars, sweep, fixerVars>>

\* startTickup as it would be without its call of stopTicker.
StartTickupNoStop ==
    /\ pane
    /\ LET made == bitmapText.exists /\ currentFontName IN
       /\ options' = options
       /\ ticker' = IF made THEN NewTween(options) ELSE ticker
       /\ tweens' = IF made /\ ticker.exists
                    THEN Append(tweens, ticker)
                    ELSE tweens
    /\ UNCHANGED <<variant, previewDropArea, load, currentFontName, bitmapText,
                   pane, sweep, fixerVars>>

\* Start Tickup is clicked: startTickup()
StartTickup ==
    /\ pane
    /\ LET s == stopTicker(ticker, options)
           made == bitmapText.exists /\ currentFontName
       IN  /\ options' = s.options
           /\ ticker' = IF made THEN NewTween(s.options) ELSE s.ticker
           /\ tweens' = IF made /\ s.ticker.exists
                        THEN Append(tweens, s.ticker)
                        ELSE tweens
    /\ UNCHANGED <<variant, previewDropArea, load, currentFontName, bitmapText,
                   pane, sweep, fixerVars>>

\* Stop Tickup is clicked: stopTicker()
StopTickup ==
    /\ pane
    /\ LET s == stopTicker(ticker, options) IN
       /\ options' = s.options
       /\ ticker' = s.ticker
    /\ tweens' = tweens
    /\ UNCHANGED <<variant, previewDropArea, load, currentFontName, bitmapText,
                   pane, sweep, fixerVars>>

\* One frame of a tween: it takes its start value from options.value when
\* it first runs, and is complete (live no more) after its last step.
TweenStep(tw, opts) ==
    LET from == IF tw.started THEN tw.from ELSE opts.value
        step == tw.step + 1
    IN  [tween   |-> [tw EXCEPT !.started = TRUE, !.from = from, !.step = step,
                                !.live = step < TweenSteps],
         options |-> [opts EXCEPT !.value = TweenValue(from, tw.to, step)]]

\* gsap runs a live tween for a frame, whether this.ticker refers to it (i = 0)
\* or not: options.value moves on and onUpdate updates the text.  A complete
\* tween stays where it is: this.ticker still refers to it.
TweenTick ==
    \E i \in 0..Len(tweens) :
        LET tw == IF i = 0 THEN ticker ELSE tweens[i]
            r  == TweenStep(tw, options)
        IN  /\ tw.exists
            /\ tw.live
            /\ ticker' = IF i = 0 THEN r.tween ELSE ticker
            /\ tweens' = IF i = 0 THEN tweens ELSE [tweens EXCEPT ![i] = r.tween]
            /\ options' = r.options
            /\ bitmapText' = updateDisplayedText(bitmapText, options')
            /\ UNCHANGED <<variant, previewDropArea, load, currentFontName,
                           pane, sweep, fixerVars>>

NextSweep ==
    \/ \E files \in Payloads : PreviewDrop(files)
    \/ PreviewTextRead
    \/ PreviewImageRead
    \/ PreviewLoadFails
    \/ PreviewLoaded
    \/ SleepFires
    \/ Resize
    \/ \E v \in StartVals : StartChanged(v)
    \/ \E v \in EndVals : EndChanged(v)
    \/ FontSizeChanged
    \/ FormatChanged
    \/ DurationChanged
    \/ StartTickup
    \/ StopTickup
    \/ TweenTick

\* Every timer of sleep(24) that is set fires.
SpecSweep == InitSweep /\ [][NextSweep]_vars /\ WF_vars(SleepFires)
----------------------------------------------------------------------------
(* Claims about the previewer's sweep (specification SpecSweep) *)

\* The sweep took a step: it started, went to its next number, or ended.
SweepStarts == sweep.pc = "idle" /\ sweep'.pc = "sleeping"
SweepAdvances == sweep.pc = "sleeping" /\ sweep'.pc = "sleeping" /\ sweep' # sweep
SweepEnds == sweep.pc = "sleeping" /\ sweep'.pc = "done"

\* C19: once started, the sweep shows 10, then at every step the number after
\* the one before, each as the text of the displayed object, never a number
\* outside 10..99; it ends only after 99, leaving the text reset (empty, or
\* the text of options.value again); and, every sleep timer firing, a sweep
\* that has started eventually ends.
C19_SweepCoverage ==
    /\ [](sweep.pc = "sleeping" =>
              /\ sweep.number \in SweepFirst..(SweepEnd - 1)
              /\ sweep.testString = ToString(sweep.number))
    /\ [][/\ sweep' # sweep => SweepStarts \/ SweepAdvances \/ SweepEnds
          /\ SweepStarts =>
                 /\ sweep'.number = SweepFirst
                 /\ bitmapText'.exists
                 /\ bitmapText'.text = ToString(SweepFirst)
          /\ SweepAdvances =>
                 /\ sweep'.number = sweep.number + 1
                 /\ bitmapText'.text = ToString(sweep'.number)
          /\ SweepEnds =>
                 /\ sweep.number = SweepEnd - 1
                 /\ bitmapText'.text \in {"", formatNumber(options', options'.value)}
       ]_vars
    /\ (sweep.pc = "sleeping") ~> (sweep.pc = "done")

\* C19's case: the sweep ran through all its numbers and ended.
C19_Witness ==
    /\ sweep.pc = "done"
    /\ sweep.number = SweepEnd - 1
    /\ load.pc = "loaded"

\* C20 (as claimed): in the kerning source, whenever the sweep resumes after
\* its sleep and reads the bounds of the text object, that object shows the
\* sweep's current test string, whatever resize events, slider changes and
\* Start/Stop Tickup clicks came during the sleep.
C20_SweepMeasuresOwnText ==
    [][(variant = "kerning" /\ (SweepAdvances \/ SweepEnds)) =>
           bitmapText.text = sweep.testString]_vars
\* A bitmap text exists and the sweep is not between its first and its last
\* step.
TextAtRest == bitmapText.exists /\ sweep.pc # "sleeping"

\* C21 (as claimed): whenever a bitmap text exists and the sweep is not
\* running, the displayed text is formatNumber(options.value) after every
\* handler; so after Stop Tickup on an existing tween it is the formatted
\* options.start.
C21_TextTracksValue ==
    TextAtRest => bitmapText.text = formatNumber(options, options.value)

\* The same in the kerning source only, where the end of the sweep itself
\* rebuilds the text from options.value.
TextTracksValueKerning == variant = "kerning" => C21_TextTracksValue

\* C22 (as claimed): a drop without both a .fnt file and an image leaves the
\* previewer's drop area in the document, ready for a later drop.
C22_DropAreaStaysUsable ==
    load.pc = "ignored" => previewDropArea
\* The text is not the text of options.value although the sweep is over and
\* ended by rebuilding it: a tween moved the value and stopTicker reset it.
StaleAfterStop ==
    /\ variant = "kerning"
    /\ sweep.pc = "done"
    /\ bitmapText.text # formatNumber(options, options.value)

\* Tweens made by startTickup and not killed; those of them still running.
NotKilledCount == Len(tweens) + (IF ticker.exists THEN 1 ELSE 0)
LiveCount ==
    Cardinality({ i \in 1..Len(tweens) : tweens[i].live })
        + (IF ticker.exists /\ ticker.live THEN 1 ELSE 0)

\* C23: at most one tween that was not killed exists, and it is the one the
\* ticker field refers to; so at most one tween is live, and a tween that
\* Start Tickup replaced was killed first.
C23_AtMostOneLiveTween ==
    /\ NotKilledCount <= 1
    /\ NotKilledCount = 1 => ticker.exists
    /\ LiveCount <= 1

\* C23's case: Start Tickup was clicked after an earlier tween had moved the
\* value: the earlier tween is gone and the new one has not run yet.
C23_Witness ==
    /\ StaleAfterStop
    /\ ticker.exists
    /\ ticker.live
    /\ ~ticker.started

\* C24: whenever the ticker field is null, options.value equals
\* options.start.
C24_ValueRestsAtStart ==
    ~ticker.exists => options.value = options.start

\* C24's case: the start slider was moved, a tween moved the value away from
\* start, and Stop Tickup made the ticker null again.
C24_Witness ==
    /\ StaleAfterStop
    /\ ~ticker.exists
    /\ options.start # InitOptions.start

====
